---- MODULE Spec2Model ----
(***************************************************************************)
(* Cross-signal correlation (package correlate): signal collection (Run),  *)
(* temporal clustering (findClusters) and error propagation detection      *)
(* (detectPropagation).                                                    *)
(*                                                                         *)
(* Time is counted in milliseconds: a Timestamp is a number of             *)
(* milliseconds and a time.Duration a difference of two of them.  A float64 *)
(* (a score, a mean delay) is kept as the exact fraction [num, den] of its *)
(* value.                                                                  *)
(***************************************************************************)
EXTENDS Integers, Sequences, FiniteSets, TLC

\* ---------------------------------------------------------------- bounds
MaxSignals == 4        \* length of the signal slice given to findClusters alone
NumServices == 4       \* distinct services in that slice
MaxEdgeSignals == 5    \* length of the signal slice given to both analyses
NumEdgeServices == 3   \* distinct services in that slice
MaxNonErrors == 1      \* non-error signals in that slice
MaxGap == 1            \* seconds between two consecutive signals of an input
MaxBucketSec == 2      \* largest bucketSec / window tried
MaxMinEvents == 2      \* largest minEvents tried
MaxBurst == 20         \* length of the one-bucket slice given to findClusters
NumBurstServices == 4  \* distinct services in that slice
MaxSuccessions == 4    \* db-then-api successions in the slice given to detectPropagation
MaxListed == 2         \* services returned by ListServices
MaxRecords == 1        \* records returned by one QueryLogs or QueryTraces call
MaxTime == 1           \* latest timestamp of a record, in seconds

\* Service names are only ever compared for equality, so inputs are enumerated
\* up to renaming: the k-th distinct service of a slice is ServiceNames[k].
ServiceNames == <<"db", "api", "web", "auth", "cache", "queue", "mail", "cron">>

VARIABLES
    pc,           \* position of the caller / of Run
    focus,        \* Options.Service
    services,     \* result.Services, the list returned by ListServices
    target,       \* targetServices
    idx,          \* index in target of the service being collected
    err,          \* the error returned by Run ("" for nil)
    signals,      \* result.Signals, the signal slice handed to the analyses
    bucketSec,    \* Options.BucketSize
    minEvents,    \* Options.MinEvents
    clusters,     \* result.Clusters, the result of findClusters
    propagation,  \* result.Propagation, the result of detectPropagation
    clusters2,    \* result of a second findClusters call on the same input
    propagation2, \* result of a second detectPropagation call on the same input
    opts,         \* BucketSize and MinEvents as the caller passed them
    calls,        \* the calls made to the telemetry backend so far, with their answers
    cancelledAt   \* -1, or once ctx is cancelled the number of calls returned before

runVars == <<focus, services, target, idx, err, opts, calls, cancelledAt>>

vars == <<pc, focus, services, target, idx, err, signals, bucketSec, minEvents,
          clusters, propagation, clusters2, propagation2, opts, calls, cancelledAt>>

\* ------------------------------------------------------------ data model
\* Signal; Summary is kept as its length in bytes and the float64 DurationMs as
\* the span's DurationNano (DurationMs = DurationNano / 1e6)
Signal(ts, src, svc, sev, summaryLen, nano, isErr) ==
    [Timestamp |-> ts, Source |-> src, Service |-> svc, Severity |-> sev,
     SummaryLen |-> summaryLen, DurationNano |-> nano, IsError |-> isErr]

\* types.LogEntry; Body is kept as its length in bytes
LogEntry(ts, bodyLen, sev) ==
    [Timestamp |-> ts, BodyLen |-> bodyLen, SeverityText |-> sev]

\* types.TraceEntry; OperationName is kept as its length in bytes
TraceEntry(ts, svc, opLen, nano, status) ==
    [Timestamp |-> ts, ServiceName |-> svc, OperationLen |-> opLen,
     DurationNano |-> nano, StatusCode |-> status]

\* one call of the Querier interface and its answer: the records returned, or
\* ok = FALSE for an error
Call(op, svc, ok, records) ==
    [Op |-> op, Service |-> svc, Ok |-> ok, Records |-> records]

\* ------------------------------------------------------------- helpers
\* the elements of a slice
Range(s) == {s[i] : i \in 1..Len(s)}

\* mutant of Seconds: time.Duration(sec) alone, a number of nanoseconds
Nanoseconds(sec) == sec \div 1000000

\* mutant of Seconds: time.Duration(sec) * time.Minute
Minutes(sec) == sec * 60000

\* time.Duration(sec) * time.Second, in milliseconds
Seconds(sec) == sec * 1000

\* sort.Slice is the pattern-defeating quicksort of Go's package sort
\* (pdqsort_func).  It is not a stable sort.  A slice of at most maxInsertion
\* elements is sorted by insertion; a longer one is partitioned around a pivot
\* first.  The model follows it for slices of up to maxInsertion + 1 elements,
\* whose two parts are both sorted by insertion.  The less function of a call is
\* given as the function less[<<x, y>>] on pairs of elements of the slice.
MaxInsertion == 12

\* insertionSortLessFunc:
\* for i := a + 1; i < b; i++ { for j := i; j > a && less(j, j-1); j-- { swap(j, j-1) } }
InsertionSort(seq, less) ==
    LET Swap(s, j) == [s EXCEPT ![j] = s[j - 1], ![j - 1] = s[j]]
        RECURSIVE Inner(_, _)
        Inner(s, j) ==
            IF j > 1 /\ less[<<s[j], s[j - 1]>>] THEN Inner(Swap(s, j), j - 1) ELSE s
        RECURSIVE Outer(_, _)
        Outer(s, i) ==
            IF i > Len(s) THEN s ELSE Outer(Inner(s, i), i + 1)
    IN Outer(seq, 2)

\* choosePivot for 8 <= len < 50: the median of the elements at len/4, len/4*2 and
\* len/4*3, and whether finding it took no swap (the slice looks increasing)
ChoosePivot(s, less) ==
    LET l == Len(s)
        Order2(a, b, n) == IF less[<<s[b], s[a]>>] THEN <<b, a, n + 1>> ELSE <<a, b, n>>
        i == 1 + (l \div 4) * 1
        j == 1 + (l \div 4) * 2
        k == 1 + (l \div 4) * 3
        o1 == Order2(i, j, 0)
        o2 == Order2(o1[2], k, o1[3])
        o3 == Order2(o1[1], o2[1], o2[3])
    IN [pivot |-> o3[2], increasing |-> o3[3] = 0]

\* partialInsertionSort on fewer than 50 elements changes nothing and reports
\* whether the slice is already sorted
AlreadySorted(s, less) == \A i \in 2..Len(s) : ~less[<<s[i], s[i - 1]>>]

\* partition: the pivot goes to the front, the elements less than it are gathered
\* on the left by swapping across the slice, and the pivot is put between the parts
Partition(seq, pivot, less) ==
    LET Swap(s, i, j) == [s EXCEPT ![i] = s[j], ![j] = s[i]]
        s0 == Swap(seq, 1, pivot)
        RECURSIVE Up(_, _, _)
        Up(s, i, j) == IF i <= j /\ less[<<s[i], s[1]>>] THEN Up(s, i + 1, j) ELSE i
        RECURSIVE Down(_, _, _)
        Down(s, i, j) == IF i <= j /\ ~less[<<s[j], s[1]>>] THEN Down(s, i, j - 1) ELSE j
        RECURSIVE Loop(_, _, _)
        Loop(s, i, j) ==
            LET i1 == Up(s, i, j)
                j1 == Down(s, i1, j)
            IN IF i1 > j1 THEN [s |-> Swap(s, j1, 1), mid |-> j1]
               ELSE Loop(Swap(s, i1, j1), i1 + 1, j1 - 1)
    IN Loop(s0, 2, Len(seq))

SortSlice(seq, less) ==
    IF Len(seq) <= MaxInsertion THEN InsertionSort(seq, less)
    ELSE LET c == ChoosePivot(seq, less)
         IN IF c.increasing /\ AlreadySorted(seq, less) THEN seq
            ELSE LET p == Partition(seq, c.pivot, less)
                 IN InsertionSort(SubSeq(p.s, 1, p.mid - 1), less)
                    \o <<p.s[p.mid]>>
                    \o InsertionSort(SubSeq(p.s, p.mid + 1, Len(seq)), less)

\* ---------------------------------------------------------- findClusters
\* math.Min(x/d, 1.0) * d, on integers: min(x, d)
MathMin(x, d) == IF x <= d THEN x ELSE d

MathMax(x, d) == IF x >= d THEN x ELSE d

\* mutant of Score: math.Max where the code has math.Min
ScoreMathMax(nServices, nErrors, nSignals) ==
    [num |-> 800 * MathMax(nServices, 3) * nSignals
             + 2400 * MathMax(nErrors, nSignals)
             + 60 * MathMax(nSignals, 20) * nSignals,
     den |-> 60 * nSignals]

\* mutant of Score: the error factor counts the signals that are not errors
ScoreNonErrors(nServices, nErrors, nSignals) ==
    [num |-> 800 * MathMin(nServices, 3) * nSignals
             + 2400 * MathMin(nSignals - nErrors, nSignals)
             + 60 * MathMin(nSignals, 20) * nSignals,
     den |-> 60 * nSignals]

\* Score: svcFactor + errFactor + volFactor as one fraction over 60 * len(Signals).
\* Up to 5 signals the order of these fractions is the order of the float64 sums.
\* mutant of Score: the service factor is not capped
ScoreServicesUncapped(nServices, nErrors, nSignals) ==
    LET svcFactor == 800 * nServices * nSignals
        errFactor == 2400 * MathMin(nErrors, nSignals)
        volFactor == 60 * MathMin(nSignals, 20) * nSignals
    IN [num |-> svcFactor + errFactor + volFactor, den |-> 60 * nSignals]

Score(nServices, nErrors, nSignals) ==
    LET svcFactor == 800 * MathMin(nServices, 3) * nSignals    \* min(s/3, 1) * 40
        errFactor == 2400 * MathMin(nErrors, nSignals)          \* min(e/n, 1) * 40
        volFactor == 60 * MathMin(nSignals, 20) * nSignals      \* min(n/20, 1) * 20
    IN [num |-> svcFactor + errFactor + volFactor, den |-> 60 * nSignals]

\* x > y on scores
ScoreGreater(x, y) == x.num * y.den > y.num * x.den

\* the less function of the cluster sort: clusters[i].Score > clusters[j].Score
ClusterLess(a, b) == ScoreGreater(a.Score, b.Score)

\* the bucket loop: state is (buckets, current); current is <<>> for nil
\* mutant of BucketLoop: the anchor moves to the signal that joined last
RECURSIVE BucketLoopSliding(_, _, _, _, _, _)
BucketLoopSliding(sigs, i, bucketDur, minEv, buckets, current) ==
    IF i > Len(sigs)
    THEN [buckets |-> buckets, current |-> current]
    ELSE LET sig == sigs[i]
             open == current = <<>> \/ sig.Timestamp - current[1].start >= bucketDur
             closed == IF current # <<>> /\ Len(current[1].signals) >= minEv
                       THEN Append(buckets, current[1])
                       ELSE buckets
             b0 == IF open THEN [start |-> sig.Timestamp, signals |-> <<>>] ELSE current[1]
             b1 == [b0 EXCEPT !.signals = Append(@, sig), !.start = sig.Timestamp]
         IN BucketLoopSliding(sigs, i + 1, bucketDur, minEv,
                              IF open THEN closed ELSE buckets, <<b1>>)

\* mutant of BucketLoop: the signal that opens a bucket is also appended to the
\* bucket it closes
RECURSIVE BucketLoopCarry(_, _, _, _, _, _)
BucketLoopCarry(sigs, i, bucketDur, minEv, buckets, current) ==
    IF i > Len(sigs)
    THEN [buckets |-> buckets, current |-> current]
    ELSE LET sig == sigs[i]
             open == current = <<>> \/ sig.Timestamp - current[1].start >= bucketDur
             closed == IF current # <<>> /\ Len(current[1].signals) + 1 >= minEv
                       THEN Append(buckets, [current[1] EXCEPT !.signals = Append(@, sig)])
                       ELSE buckets
             b0 == IF open THEN [start |-> sig.Timestamp, signals |-> <<>>] ELSE current[1]
             b1 == [b0 EXCEPT !.signals = Append(@, sig)]
         IN BucketLoopCarry(sigs, i + 1, bucketDur, minEv,
                            IF open THEN closed ELSE buckets, <<b1>>)

\* mutant of BucketLoop: a signal exactly bucketDur after the anchor stays in the bucket
RECURSIVE BucketLoopStrict(_, _, _, _, _, _)
BucketLoopStrict(sigs, i, bucketDur, minEv, buckets, current) ==
    IF i > Len(sigs)
    THEN [buckets |-> buckets, current |-> current]
    ELSE LET sig == sigs[i]
             open == current = <<>> \/ sig.Timestamp - current[1].start > bucketDur
             closed == IF current # <<>> /\ Len(current[1].signals) >= minEv
                       THEN Append(buckets, current[1])
                       ELSE buckets
             b0 == IF open THEN [start |-> sig.Timestamp, signals |-> <<>>] ELSE current[1]
             b1 == [b0 EXCEPT !.signals = Append(@, sig)]
         IN BucketLoopStrict(sigs, i + 1, bucketDur, minEv,
                             IF open THEN closed ELSE buckets, <<b1>>)

RECURSIVE BucketLoop(_, _, _, _, _, _)
BucketLoop(sigs, i, bucketDur, minEv, buckets, current) ==
    IF i > Len(sigs)
    THEN [buckets |-> buckets, current |-> current]
    ELSE LET sig == sigs[i]
             open == current = <<>> \/ sig.Timestamp - current[1].start >= bucketDur
             closed == IF current # <<>> /\ Len(current[1].signals) >= minEv
                       THEN Append(buckets, current[1])
                       ELSE buckets
             b0 == IF open THEN [start |-> sig.Timestamp, signals |-> <<>>] ELSE current[1]
             b1 == [b0 EXCEPT !.signals = Append(@, sig)]
         IN BucketLoop(sigs, i + 1, bucketDur, minEv,
                       IF open THEN closed ELSE buckets, <<b1>>)

\* mutant of Buckets: the final open bucket is appended without the threshold test
BucketsKeepLast(sigs, bucketDur, minEv) ==
    LET r == BucketLoop(sigs, 1, bucketDur, minEv, <<>>, <<>>)
    IN IF r.current # <<>> THEN Append(r.buckets, r.current[1]) ELSE r.buckets

Buckets(sigs, bucketDur, minEv) ==
    LET r == BucketLoop(sigs, 1, bucketDur, minEv, <<>>, <<>>)
    IN IF r.current # <<>> /\ Len(r.current[1].signals) >= minEv
       THEN Append(r.buckets, r.current[1])
       ELSE r.buckets

\* mutant of MakeCluster: End is taken from the first signal of the bucket
MakeClusterEndFirst(b) ==
    LET svcs == {b.signals[i].Service : i \in 1..Len(b.signals)}
        errs == Cardinality({i \in 1..Len(b.signals) : b.signals[i].IsError})
    IN [Start |-> b.signals[1].Timestamp,
        End |-> b.signals[1].Timestamp,
        Signals |-> b.signals,
        Services |-> [s \in svcs |->
                        Cardinality({i \in 1..Len(b.signals) : b.signals[i].Service = s})],
        Errors |-> errs,
        Score |-> Score(Cardinality(svcs), errs, Len(b.signals))]

\* mutant of MakeCluster: Errors is incremented for every signal
MakeClusterCountAll(b) ==
    LET svcs == {b.signals[i].Service : i \in 1..Len(b.signals)}
        errs == Len(b.signals)
    IN [Start |-> b.signals[1].Timestamp,
        End |-> b.signals[Len(b.signals)].Timestamp,
        Signals |-> b.signals,
        Services |-> [s \in svcs |->
                        Cardinality({i \in 1..Len(b.signals) : b.signals[i].Service = s})],
        Errors |-> errs,
        Score |-> Score(Cardinality(svcs), errs, Len(b.signals))]

MakeCluster(b) ==
    LET svcs == {b.signals[i].Service : i \in 1..Len(b.signals)}
        hist == [s \in svcs |-> Cardinality({i \in 1..Len(b.signals) : b.signals[i].Service = s})]
        errs == Cardinality({i \in 1..Len(b.signals) : b.signals[i].IsError})
    IN [Start |-> b.signals[1].Timestamp,
        End |-> b.signals[Len(b.signals)].Timestamp,
        Signals |-> b.signals,
        Services |-> hist,
        Errors |-> errs,
        Score |-> Score(Cardinality(svcs), errs, Len(b.signals))]

findClusters(sigs, bucketSeconds, minEv) ==
    IF Len(sigs) = 0 THEN <<>>
    ELSE LET buckets == Buckets(sigs, Seconds(bucketSeconds), minEv)
             built == [k \in 1..Len(buckets) |-> MakeCluster(buckets[k])]
         IN SortSlice(built, [p \in Range(built) \X Range(built) |->
                                   ClusterLess(p[1], p[2])])

\* ----------------------------------------------------- detectPropagation
\* delay.Milliseconds()
Milliseconds(d) == d

\* edges[key]: create the edge if absent, then Count++ and DelayMs += delay
Accumulate(edges, from, to, delay) ==
    LET key == <<from, to>>
        edge == IF key \in DOMAIN edges
                THEN edges[key]
                ELSE [From |-> from, To |-> to, DelayMs |-> [num |-> 0, den |-> 1],
                      Count |-> 0, ErrorRate |-> 0]
        upd == [edge EXCEPT !.Count = @ + 1,
                            !.DelayMs = [num |-> @.num + Milliseconds(delay), den |-> 1]]
    IN [k \in DOMAIN edges \cup {key} |-> IF k = key THEN upd ELSE edges[k]]

\* mutant of SkipPair: the same-service test is missing
SkipPairDelayOnly(a, b, delay) == delay <= 0

\* the pair is skipped: delay <= 0 || a.Service == b.Service
SkipPair(a, b, delay) == delay <= 0 \/ a.Service = b.Service

\* for j := i + 1; j < len(errorSignals); j++ { ... }
\* mutant of PairLoop: the scan of later errors stops at delay >= window
RECURSIVE PairLoopBreakAtWindow(_, _, _, _, _)
PairLoopBreakAtWindow(errs, i, j, window, edges) ==
    IF j > Len(errs) THEN edges
    ELSE LET a == errs[i]
             b == errs[j]
             delay == b.Timestamp - a.Timestamp
         IN IF delay >= window THEN edges
            ELSE IF SkipPair(a, b, delay)
                 THEN PairLoopBreakAtWindow(errs, i, j + 1, window, edges)
            ELSE PairLoopBreakAtWindow(errs, i, j + 1, window,
                                       Accumulate(edges, a.Service, b.Service, delay))

RECURSIVE PairLoop(_, _, _, _, _)
PairLoop(errs, i, j, window, edges) ==
    IF j > Len(errs) THEN edges
    ELSE LET a == errs[i]
             b == errs[j]
             delay == b.Timestamp - a.Timestamp
         IN IF delay > window THEN edges
            ELSE IF SkipPair(a, b, delay) THEN PairLoop(errs, i, j + 1, window, edges)
            ELSE PairLoop(errs, i, j + 1, window,
                          Accumulate(edges, a.Service, b.Service, delay))

\* for i, a := range errorSignals { ... }
RECURSIVE ErrorLoop(_, _, _, _)
ErrorLoop(errs, i, window, edges) ==
    IF i > Len(errs) THEN edges
    ELSE ErrorLoop(errs, i + 1, window, PairLoop(errs, i, i + 1, window, edges))

\* mutant of EdgeMap: the non-error signals are not filtered out
EdgeMapAllSignals(sigs, bucketSeconds) ==
    ErrorLoop(sigs, 1, Seconds(bucketSeconds), <<>>)

EdgeMap(sigs, bucketSeconds) ==
    LET errorSignals == SelectSeq(sigs, LAMBDA s : s.IsError)
    IN ErrorLoop(errorSignals, 1, Seconds(bucketSeconds), <<>>)

\* the orders in which `range edges` can visit the keys of the map: Go leaves the
\* iteration order of a map unspecified and randomises it from one loop to the next
RECURSIVE Perms(_)
Perms(S) ==
    IF S = {} THEN {<<>>}
    ELSE UNION {{<<x>> \o p : p \in Perms(S \ {x})} : x \in S}

RangeOrders(edges) == Perms(DOMAIN edges)

\* mutant of KeepEdge: the threshold is one too low
KeepEdgeOnce(edge) == ~(edge.Count < 1)

\* the edge is kept by the noise filter
KeepEdge(edge) == ~(edge.Count < 2)

\* for _, edge := range edges { if edge.Count < 2 { continue }; edge.DelayMs /= Count; append }
\* mutant of Averages: DelayMs is left as the sum of the delays
RECURSIVE AveragesUndivided(_, _, _)
AveragesUndivided(edges, order, k) ==
    IF k > Len(order) THEN <<>>
    ELSE LET edge == edges[order[k]]
             rest == AveragesUndivided(edges, order, k + 1)
         IN IF KeepEdge(edge) THEN <<edge>> \o rest ELSE rest

RECURSIVE Averages(_, _, _)
Averages(edges, order, k) ==
    IF k > Len(order) THEN <<>>
    ELSE LET edge == edges[order[k]]
             rest == Averages(edges, order, k + 1)
         IN IF KeepEdge(edge)
            THEN <<[edge EXCEPT !.DelayMs = [num |-> @.num, den |-> edge.Count]]>> \o rest
            ELSE rest

\* mutant of EdgeLess: ascending
EdgeLessAscending(a, b) == a.Count < b.Count

\* the less function of the edge sort: result[i].Count > result[j].Count
EdgeLess(a, b) == a.Count > b.Count

\* detectPropagation, the map being ranged over in the given order
detectPropagation(sigs, bucketSeconds, order) ==
    LET result == Averages(EdgeMap(sigs, bucketSeconds), order, 1)
    IN SortSlice(result, [p \in Range(result) \X Range(result) |-> EdgeLess(p[1], p[2])])

\* every result a call of detectPropagation can return
detectPropagationResults(sigs, bucketSeconds) ==
    IF Len(sigs) < 2 THEN {<<>>}
    ELSE {detectPropagation(sigs, bucketSeconds, order) :
             order \in RangeOrders(EdgeMap(sigs, bucketSeconds))}

\* ------------------------------------------------------------------ Run
\* mutant of SignalLess: the comparison is reversed
SignalLessAfter(a, b) == a.Timestamp > b.Timestamp

\* the less function of the signal sort: Signals[i].Timestamp.Before(Signals[j].Timestamp)
SignalLess(a, b) == a.Timestamp < b.Timestamp

\* body[:120] + "..." when len(body) > 120
TruncatedLen(bodyLen) == IF bodyLen > 120 THEN 120 + 3 ELSE bodyLen

LogSignal(svcName, log) ==
    Signal(log.Timestamp, "logs", svcName, log.SeverityText,
           TruncatedLen(log.BodyLen), 0, TRUE)

IsErrorSpan(t) == t.StatusCode # "" /\ t.StatusCode # "OK" /\ t.StatusCode # "0"

\* mutant of IsSlowSpan: a span of exactly 1000 ms counts as slow
IsSlowSpanInclusive(t) == t.DurationNano >= 1000 * 1000000

\* t.DurationMs() > 1000
IsSlowSpan(t) == t.DurationNano > 1000 * 1000000

\* number of decimal digits of a positive integer
RECURSIVE Digits(_)
Digits(n) == IF n < 10 THEN 1 ELSE 1 + Digits(n \div 10)

\* fmt.Sprintf("%.0f", DurationMs): the nearest integer, ties to even
RoundedMs(nano) ==
    LET q == nano \div 1000000
        r == nano % 1000000
    IN IF r > 500000 \/ (r = 500000 /\ q % 2 = 1) THEN q + 1 ELSE q

\* OperationName + " [status:%s]" + " [%.0fms]"
TraceSummaryLen(t) ==
    t.OperationLen
    + (IF IsErrorSpan(t) THEN 9 + Len(t.StatusCode) + 1 ELSE 0)
    + (IF IsSlowSpan(t) THEN 2 + Digits(RoundedMs(t.DurationNano)) + 3 ELSE 0)

TraceSignal(t) ==
    Signal(t.Timestamp, "traces", t.ServiceName, t.StatusCode,
           TraceSummaryLen(t), t.DurationNano, IsErrorSpan(t))

\* the signals appended for the logs of one QueryLogs result
LogSignals(svcName, logs) == [k \in 1..Len(logs) |-> LogSignal(svcName, logs[k])]

\* the signals appended for the spans of one QueryTraces result
RECURSIVE TraceSignals(_, _)
TraceSignals(traces, k) ==
    IF k > Len(traces) THEN <<>>
    ELSE IF ~IsErrorSpan(traces[k]) /\ ~IsSlowSpan(traces[k])
         THEN TraceSignals(traces, k + 1)
         ELSE <<TraceSignal(traces[k])>> \o TraceSignals(traces, k + 1)

\* sequences over S of length at most n
SeqsUpTo(S, n) == UNION {[1..k -> S] : k \in 0..n}

\* what the telemetry backend can answer
ServiceLists ==
    {l \in SeqsUpTo({ServiceNames[k] : k \in 1..MaxListed}, MaxListed) :
        \A i \in 1..Len(l) : \E k \in 1..i : l[i] = ServiceNames[k]}

LogAnswers ==
    SeqsUpTo({LogEntry(Seconds(ts), bodyLen, "error") :
                 ts \in 0..MaxTime, bodyLen \in {120, 121}},
             MaxRecords)

\* spans with a short operation name, and one failed slow span with a long one
TraceEntries(svcName) ==
    {TraceEntry(Seconds(ts), svc, 8, nano, status) :
        ts \in 0..MaxTime, svc \in {svcName, ""},
        nano \in {1000000000, 1000000001},
        status \in {"", "OK", "0", "ERROR"}}
    \cup {TraceEntry(0, svcName, 200, 1000000001, "ERROR")}

TraceAnswers(svcName) == SeqsUpTo(TraceEntries(svcName), MaxRecords)

NoResult == <<>>

InitRun ==
    /\ pc = "start"
    /\ focus \in {"", ServiceNames[1], ServiceNames[MaxListed + 1]}
    /\ services = <<>>
    /\ target = <<>>
    /\ idx = 0
    /\ err = ""
    /\ signals = <<>>
    /\ bucketSec \in 0..1
    /\ minEvents \in 0..1
    /\ clusters = NoResult
    /\ propagation = NoResult
    /\ clusters2 = NoResult
    /\ propagation2 = NoResult
    /\ opts = [BucketSize |-> bucketSec, MinEvents |-> minEvents]
    /\ calls = <<>>
    /\ cancelledAt = -1

\* mutant of DefaultBucketSize: the value is used as given
BucketSizeAsGiven(b) == b

\* if opts.BucketSize <= 0 { opts.BucketSize = 60 }
DefaultBucketSize(b) == IF b <= 0 THEN 60 ELSE b

\* if opts.MinEvents <= 0 { opts.MinEvents = 3 }
DefaultMinEvents(m) == IF m <= 0 THEN 3 ELSE m

\* mutant of TargetServices: an unknown name selects every service
TargetServicesFallback(svcs, name) ==
    LET hits == {i \in 1..Len(svcs) : svcs[i] = name}
    IN IF name = "" \/ hits = {} THEN svcs
       ELSE <<svcs[CHOOSE i \in hits : \A j \in hits : i <= j]>>

\* targetServices: all services, or the first one named opts.Service
TargetServices(svcs, name) ==
    IF name = "" THEN svcs
    ELSE LET hits == {i \in 1..Len(svcs) : svcs[i] = name}
         IN IF hits = {} THEN <<>>
            ELSE <<svcs[CHOOSE i \in hits : \A j \in hits : i <= j]>>

\* mutant of ListServices: a failure of the call is taken as an empty service list
ListServicesFailureEmpty ==
    /\ pc = "start"
    /\ bucketSec' = DefaultBucketSize(bucketSec)
    /\ minEvents' = DefaultMinEvents(minEvents)
    /\ \/ /\ calls' = Append(calls, Call("ListServices", "", FALSE, <<>>))
          /\ pc' = (IF focus # "" THEN "failed" ELSE "sort")
          /\ err' = (IF focus # "" THEN "service not found" ELSE err)
          /\ UNCHANGED <<services, target, idx>>
       \/ \E svcs \in ServiceLists :
            /\ services' = svcs
            /\ calls' = Append(calls, Call("ListServices", "", TRUE, svcs))
            /\ target' = TargetServices(svcs, focus)
            /\ IF focus # "" /\ TargetServices(svcs, focus) = <<>>
               THEN /\ pc' = "failed"
                    /\ err' = "service not found"
                    /\ idx' = idx
               ELSE /\ pc' = (IF svcs = <<>> THEN "sort" ELSE "logs")
                    /\ err' = err
                    /\ idx' = 1
    /\ UNCHANGED <<focus, opts, cancelledAt, signals, clusters, propagation, clusters2,
                   propagation2>>

\* Run up to the collection loop: the defaults, ListServices and the focus filter
ListServices ==
    /\ pc = "start"
    /\ bucketSec' = DefaultBucketSize(bucketSec)
    /\ minEvents' = DefaultMinEvents(minEvents)
    /\ \/ /\ pc' = "failed"
          /\ err' = "listing services"
          /\ calls' = Append(calls, Call("ListServices", "", FALSE, <<>>))
          /\ UNCHANGED <<services, target, idx>>
       \/ \E svcs \in ServiceLists :
            /\ services' = svcs
            /\ calls' = Append(calls, Call("ListServices", "", TRUE, svcs))
            /\ target' = TargetServices(svcs, focus)
            /\ IF focus # "" /\ TargetServices(svcs, focus) = <<>>
               THEN /\ pc' = "failed"
                    /\ err' = "service not found"
                    /\ idx' = idx
               ELSE /\ pc' = (IF svcs = <<>> THEN "sort" ELSE "logs")
                    /\ err' = err
                    /\ idx' = 1
    /\ UNCHANGED <<focus, opts, cancelledAt, signals, clusters, propagation, clusters2,
                   propagation2>>

\* http.NewRequestWithContext(ctx, ...): a request can be answered while ctx is live
ContextLive == cancelledAt < 0

\* the caller cancels ctx while Run collects
Cancel ==
    /\ pc \in {"logs", "traces"}
    /\ ContextLive
    /\ cancelledAt' = Len(calls)
    /\ UNCHANGED <<pc, focus, services, target, idx, err, opts, calls, signals, bucketSec,
                   minEvents, clusters, propagation, clusters2, propagation2>>

\* mutant of QueryLogs: a failed query ends Run with an error
QueryLogsAbortOnError ==
    /\ pc = "logs"
    /\ \/ /\ calls' = Append(calls, Call("QueryLogs", target[idx], FALSE, <<>>))
          /\ pc' = "failed"
          /\ err' = "querying logs"
          /\ UNCHANGED signals
       \/ \E logs \in LogAnswers :
            /\ ContextLive
            /\ calls' = Append(calls, Call("QueryLogs", target[idx], TRUE, logs))
            /\ signals' = signals \o LogSignals(target[idx], logs)
            /\ pc' = "traces"
            /\ err' = err
    /\ UNCHANGED <<focus, services, target, idx, opts, cancelledAt, bucketSec, minEvents,
                   clusters, propagation, clusters2, propagation2>>

\* client.QueryLogs for target[idx]: a failure adds nothing, and the client's
\* request fails once ctx is cancelled
QueryLogs ==
    /\ pc = "logs"
    /\ \/ /\ calls' = Append(calls, Call("QueryLogs", target[idx], FALSE, <<>>))
          /\ UNCHANGED signals
       \/ \E logs \in LogAnswers :
            /\ ContextLive
            /\ calls' = Append(calls, Call("QueryLogs", target[idx], TRUE, logs))
            /\ signals' = signals \o LogSignals(target[idx], logs)
    /\ pc' = "traces"
    /\ UNCHANGED <<focus, services, target, idx, err, opts, cancelledAt, bucketSec,
                   minEvents, clusters, propagation, clusters2, propagation2>>

\* mutant of QueryTraces: the client answers although ctx is cancelled
QueryTracesIgnoringContext ==
    /\ pc = "traces"
    /\ \/ /\ calls' = Append(calls, Call("QueryTraces", target[idx], FALSE, <<>>))
          /\ UNCHANGED signals
       \/ \E traces \in TraceAnswers(target[idx]) :
            /\ calls' = Append(calls, Call("QueryTraces", target[idx], TRUE, traces))
            /\ signals' = signals \o TraceSignals(traces, 1)
    /\ idx' = idx + 1
    /\ pc' = (IF idx + 1 > Len(target) THEN "sort" ELSE "logs")
    /\ UNCHANGED <<focus, services, target, err, opts, cancelledAt, bucketSec, minEvents,
                   clusters, propagation, clusters2, propagation2>>

\* client.QueryTraces for target[idx]: a failure adds nothing, and the client's
\* request fails once ctx is cancelled
QueryTraces ==
    /\ pc = "traces"
    /\ \/ /\ calls' = Append(calls, Call("QueryTraces", target[idx], FALSE, <<>>))
          /\ UNCHANGED signals
       \/ \E traces \in TraceAnswers(target[idx]) :
            /\ ContextLive
            /\ calls' = Append(calls, Call("QueryTraces", target[idx], TRUE, traces))
            /\ signals' = signals \o TraceSignals(traces, 1)
    /\ idx' = idx + 1
    /\ pc' = (IF idx + 1 > Len(target) THEN "sort" ELSE "logs")
    /\ UNCHANGED <<focus, services, target, err, opts, cancelledAt, bucketSec, minEvents,
                   clusters, propagation, clusters2, propagation2>>

\* sort.Slice(result.Signals, ...)
SortSignals ==
    /\ pc = "sort"
    /\ signals' = SortSlice(signals, [p \in Range(signals) \X Range(signals) |->
                                         SignalLess(p[1], p[2])])
    /\ pc' = "sorted"
    /\ UNCHANGED <<runVars, bucketSec, minEvents, clusters, propagation, clusters2, propagation2>>

\* ------------------------------------------- direct calls of the analyses
InitInput ==
    /\ pc = "sorted"
    /\ focus = ""
    /\ services = <<>>
    /\ target = <<>>
    /\ idx = 0
    /\ err = ""
    /\ signals = <<>>
    /\ bucketSec \in 1..MaxBucketSec
    /\ minEvents \in 1..MaxMinEvents
    /\ clusters = NoResult
    /\ propagation = NoResult
    /\ clusters2 = NoResult
    /\ propagation2 = NoResult
    /\ opts = [BucketSize |-> bucketSec, MinEvents |-> minEvents]
    /\ calls = <<>>
    /\ cancelledAt = -1

ServicesOf(sigs) == {sigs[i].Service : i \in 1..Len(sigs)}

\* the signals that can follow sigs in a timestamp-sorted slice over at most n services
NextSignals(sigs, n) ==
    LET last == IF sigs = <<>> THEN 0 ELSE sigs[Len(sigs)].Timestamp
        gaps == IF sigs = <<>> THEN {0} ELSE 0..MaxGap
        used == Cardinality(ServicesOf(sigs))
    IN {Signal(last + Seconds(gap), IF isErr THEN "logs" ELSE "traces", ServiceNames[k],
               "", 0, 0, isErr) :
          gap \in gaps, k \in 1..(IF used < n THEN used + 1 ELSE n), isErr \in BOOLEAN}

\* a caller of findClusters builds a timestamp-sorted slice, one signal at a time
AppendSignal ==
    /\ pc = "sorted"
    /\ Len(signals) < MaxSignals
    /\ \E sig \in NextSignals(signals, NumServices) : signals' = Append(signals, sig)
    /\ UNCHANGED <<pc, runVars, bucketSec, minEvents, clusters, propagation,
                   clusters2, propagation2>>

NonErrors(sigs) == Cardinality({i \in 1..Len(sigs) : ~sigs[i].IsError})

\* a caller of both analyses builds a sorted slice that is mostly errors
AppendEdgeSignal ==
    /\ pc = "sorted"
    /\ Len(signals) < MaxEdgeSignals
    /\ \E sig \in NextSignals(signals, NumEdgeServices) :
         /\ NonErrors(Append(signals, sig)) <= MaxNonErrors
         /\ signals' = Append(signals, sig)
    /\ UNCHANGED <<pc, runVars, bucketSec, minEvents, clusters, propagation,
                   clusters2, propagation2>>

\* mutant of FindClusters: the call leaves the caller's slice reversed
FindClustersInPlace ==
    /\ pc = "sorted"
    /\ clusters' = findClusters(signals, bucketSec, minEvents)
    /\ signals' = [i \in 1..Len(signals) |-> signals[Len(signals) + 1 - i]]
    /\ pc' = "clustered"
    /\ UNCHANGED <<runVars, bucketSec, minEvents, propagation, clusters2, propagation2>>

\* result.Clusters = findClusters(result.Signals, opts.BucketSize, opts.MinEvents)
FindClusters ==
    /\ pc = "sorted"
    /\ clusters' = findClusters(signals, bucketSec, minEvents)
    /\ pc' = "clustered"
    /\ UNCHANGED <<runVars, signals, bucketSec, minEvents, propagation,
                   clusters2, propagation2>>

\* result.Propagation = detectPropagation(result.Signals, opts.BucketSize)
DetectPropagation ==
    /\ pc = "clustered"
    /\ propagation' \in detectPropagationResults(signals, bucketSec)
    /\ pc' = "done"
    /\ UNCHANGED <<runVars, signals, bucketSec, minEvents, clusters, clusters2, propagation2>>

\* the same calls once more on the same slice with the same parameters
ReFindClusters ==
    /\ pc = "done"
    /\ clusters2' = findClusters(signals, bucketSec, minEvents)
    /\ pc' = "reclustered"
    /\ UNCHANGED <<runVars, signals, bucketSec, minEvents, clusters, propagation,
                   propagation2>>

ReDetectPropagation ==
    /\ pc = "reclustered"
    /\ propagation2' \in detectPropagationResults(signals, bucketSec)
    /\ pc' = "redone"
    /\ UNCHANGED <<runVars, signals, bucketSec, minEvents, clusters, propagation, clusters2>>

\* --------------------------------------------------------- specifications
\* Run, from its call to its return
Next ==
    \/ ListServices
    \/ QueryLogs
    \/ QueryTraces
    \/ SortSignals
    \/ FindClusters
    \/ DetectPropagation

Spec == InitRun /\ [][Next]_vars

\* Run with a caller that may cancel ctx during the collection
NextCancel == Next \/ Cancel

SpecCancel == InitRun /\ [][NextCancel]_vars

\* findClusters called on a sorted slice
NextClusters == AppendSignal \/ FindClusters

SpecClusters == InitInput /\ [][NextClusters]_vars

\* findClusters called on a long sorted slice of lone signals: every signal is a
\* bucket of its own, so that more than maxInsertion clusters are sorted
InitLong ==
    /\ InitInput
    /\ bucketSec = 1
    /\ minEvents = 1

AppendLoneSignal ==
    /\ pc = "sorted"
    /\ Len(signals) < MaxInsertion + 1
    /\ \E isErr \in BOOLEAN :
         LET last == IF signals = <<>> THEN 0 ELSE signals[Len(signals)].Timestamp
         IN signals' = Append(signals,
                Signal(last + Seconds(bucketSec), IF isErr THEN "logs" ELSE "traces",
                       ServiceNames[1], "", 0, 0, isErr))
    /\ UNCHANGED <<pc, runVars, bucketSec, minEvents, clusters, propagation,
                   clusters2, propagation2>>

NextLong == AppendLoneSignal \/ FindClusters

SpecLong == InitLong /\ [][NextLong]_vars

\* findClusters and detectPropagation called, twice each, on a sorted slice
NextAnalysis ==
    \/ AppendEdgeSignal
    \/ FindClusters
    \/ DetectPropagation
    \/ ReFindClusters
    \/ ReDetectPropagation

SpecAnalysis == InitInput /\ [][NextAnalysis]_vars

\* findClusters called on one large burst: signals one second apart in a bucket of
\* 60 seconds with minEvents 3, the errors first, the services in blocks
InitScoring ==
    /\ pc = "sorted"
    /\ focus = ""
    /\ services = <<>>
    /\ target = <<>>
    /\ idx = 0
    /\ err = ""
    /\ signals = <<>>
    /\ bucketSec = 60
    /\ minEvents = 3
    /\ clusters = NoResult
    /\ propagation = NoResult
    /\ clusters2 = NoResult
    /\ propagation2 = NoResult
    /\ opts = [BucketSize |-> bucketSec, MinEvents |-> minEvents]
    /\ calls = <<>>
    /\ cancelledAt = -1

AppendBurstSignal ==
    /\ pc = "sorted"
    /\ Len(signals) < MaxBurst
    /\ LET n == Len(signals)
           last == IF n = 0 THEN 0 ELSE signals[n].Timestamp + Seconds(1)
           used == Cardinality(ServicesOf(signals))
       IN \E k \in {used, used + 1} \cap (1..NumBurstServices), isErr \in BOOLEAN :
            /\ isErr => \A i \in 1..n : signals[i].IsError
            /\ signals' = Append(signals,
                   Signal(last, IF isErr THEN "logs" ELSE "traces", ServiceNames[k],
                          "", 0, 0, isErr))
    /\ UNCHANGED <<pc, runVars, bucketSec, minEvents, clusters, propagation,
                   clusters2, propagation2>>

NextScoring == AppendBurstSignal \/ FindClusters

SpecScoring == InitScoring /\ [][NextScoring]_vars

\* both analyses called on a recurring succession: an error of db followed 100 ms
\* later by an error of api, again and again, at once or 900 ms after the last
\* one, with a non-error signal of a third service here and there
InitSuccession ==
    /\ pc = "sorted"
    /\ focus = ""
    /\ services = <<>>
    /\ target = <<>>
    /\ idx = 0
    /\ err = ""
    /\ signals = <<>>
    /\ bucketSec \in {1, 60}
    /\ minEvents = 3
    /\ clusters = NoResult
    /\ propagation = NoResult
    /\ clusters2 = NoResult
    /\ propagation2 = NoResult
    /\ opts = [BucketSize |-> bucketSec, MinEvents |-> minEvents]
    /\ calls = <<>>
    /\ cancelledAt = -1

AppendSuccession ==
    /\ pc = "sorted"
    /\ Len(signals) - NonErrors(signals) < 2 * MaxSuccessions
    /\ \E gap \in {0, 900}, noise \in BOOLEAN :
         LET at == IF signals = <<>> THEN 0 ELSE signals[Len(signals)].Timestamp + gap
             quiet == IF noise
                      THEN <<Signal(at, "traces", ServiceNames[3], "OK", 0, 0, FALSE)>>
                      ELSE <<>>
         IN signals' = signals \o quiet
                \o <<Signal(at, "logs", ServiceNames[1], "error", 0, 0, TRUE),
                     Signal(at + 100, "logs", ServiceNames[2], "error", 0, 0, TRUE)>>
    /\ UNCHANGED <<pc, runVars, bucketSec, minEvents, clusters, propagation,
                   clusters2, propagation2>>

NextSuccession == AppendSuccession \/ FindClusters \/ DetectPropagation

SpecSuccession == InitSuccession /\ [][NextSuccession]_vars

\* a direct caller runs the two analyses in the other order on the same slice
DetectPropagationFirst ==
    /\ calls = <<>>
    /\ cancelledAt = -1
    /\ pc = "sorted"
    /\ propagation' \in detectPropagationResults(signals, bucketSec)
    /\ pc' = "propagated"
    /\ UNCHANGED <<runVars, signals, bucketSec, minEvents, clusters, clusters2, propagation2>>

FindClustersSecond ==
    /\ pc = "propagated"
    /\ clusters' = findClusters(signals, bucketSec, minEvents)
    /\ pc' = "done"
    /\ UNCHANGED <<runVars, signals, bucketSec, minEvents, propagation,
                   clusters2, propagation2>>

AppendDirectEdgeSignal ==
    /\ calls = <<>>
    /\ cancelledAt = -1
    /\ AppendEdgeSignal

\* Run, and the two analyses called directly in either order
NextOrder ==
    \/ Next
    \/ AppendDirectEdgeSignal
    \/ DetectPropagationFirst
    \/ FindClustersSecond

SpecOrder == (InitRun \/ InitInput) /\ [][NextOrder]_vars

\* Run, and findClusters and detectPropagation called directly by a caller that
\* may pass non-positive parameters
InitDirect ==
    /\ pc = "sorted"
    /\ focus = ""
    /\ services = <<>>
    /\ target = <<>>
    /\ idx = 0
    /\ err = ""
    /\ signals = <<>>
    /\ bucketSec \in 0..MaxBucketSec
    /\ minEvents \in 0..MaxMinEvents
    /\ clusters = NoResult
    /\ propagation = NoResult
    /\ clusters2 = NoResult
    /\ propagation2 = NoResult
    /\ opts = [BucketSize |-> bucketSec, MinEvents |-> minEvents]
    /\ calls = <<>>
    /\ cancelledAt = -1

\* the direct caller builds its slice; Run has made a call before it holds one
AppendDirectSignal ==
    /\ calls = <<>>
    /\ cancelledAt = -1
    /\ AppendSignal

NextDefaults == Next \/ AppendDirectSignal

SpecDefaults == (InitRun \/ InitDirect) /\ [][NextDefaults]_vars

\* ================================================================ claims
Clustered == pc = "clustered"

\* C1: two runs of findClusters and two runs of detectPropagation on the same
\* sorted slice with the same parameters return identical output, order included.
C1_Idempotent ==
    pc = "redone" => clusters2 = clusters /\ propagation2 = propagation

\* C2: every returned cluster holds at least minEvents signals.
C2_MinimumThreshold ==
    Clustered => \A k \in 1..Len(clusters) : Len(clusters[k].Signals) >= minEvents

\* an undersized bucket closed in mid-stream and an undersized final bucket were
\* both discarded, and a cluster was returned
C2_Witness ==
    /\ Clustered
    /\ Len(clusters) = 1
    /\ signals[1].Timestamp < clusters[1].Start
    /\ clusters[1].End < signals[Len(signals)].Timestamp

\* C3: every signal of a cluster lies between the cluster's Start and End.
C3_Membership ==
    Clustered =>
        \A k \in 1..Len(clusters) : \A i \in 1..Len(clusters[k].Signals) :
            /\ clusters[k].Start <= clusters[k].Signals[i].Timestamp
            /\ clusters[k].Signals[i].Timestamp <= clusters[k].End

\* a cluster of three signals or more that spans more than an instant
C3_Witness ==
    /\ Clustered
    /\ \E k \in 1..Len(clusters) :
         Len(clusters[k].Signals) >= 3 /\ clusters[k].Start < clusters[k].End

\* C4: no returned edge links a service to itself.
C4_NoSelfEdges ==
    pc = "done" => \A k \in 1..Len(propagation) : propagation[k].From # propagation[k].To

\* an edge was returned although a service had three errors at distinct instants
\* inside one window
C4_Witness ==
    /\ pc = "done"
    /\ propagation # <<>>
    /\ \E i, j, k \in 1..Len(signals) :
         /\ i < j /\ j < k
         /\ signals[i].IsError /\ signals[j].IsError /\ signals[k].IsError
         /\ signals[i].Service = signals[j].Service
         /\ signals[j].Service = signals[k].Service
         /\ signals[i].Timestamp < signals[j].Timestamp
         /\ signals[j].Timestamp < signals[k].Timestamp
         /\ signals[k].Timestamp - signals[i].Timestamp <= Seconds(bucketSec)

\* C5: every returned edge has Count >= 2.
C5_MinimumSupport ==
    pc = "done" => \A k \in 1..Len(propagation) : propagation[k].Count >= 2

\* a pair of services supported by exactly one correlated error pair was dropped
\* while another pair was returned
C5_Witness ==
    /\ pc = "done"
    /\ propagation # <<>>
    /\ \E key \in DOMAIN EdgeMap(signals, bucketSec) :
         /\ EdgeMap(signals, bucketSec)[key].Count = 1
         /\ \A k \in 1..Len(propagation) : <<propagation[k].From, propagation[k].To>> # key

\* C6: whatever the order of the services and of the records the queries return,
\* the Signals of the Result are non-decreasing by timestamp, and that sorted list
\* is what findClusters and detectPropagation receive.
C6_SortInvariant ==
    pc \in {"sorted", "clustered", "done"} =>
        \A k \in 1..(Len(signals) - 1) : signals[k].Timestamp <= signals[k + 1].Timestamp

\* Run returned a Result whose signals were collected out of timestamp order (the
\* log of the first service, collected first, is later than a span and is now
\* last) and both analyses have run on them
C6_Witness ==
    /\ pc = "done"
    /\ Len(target) = 2
    /\ target[1] # target[2]
    /\ Len(signals) >= 3
    /\ signals[1].Timestamp < signals[Len(signals)].Timestamp
    /\ signals[1].Source = "traces"
    /\ signals[Len(signals)].Source = "logs"
    /\ signals[Len(signals)].Service = target[1]
    /\ clusters # <<>>

\* C7: every returned cluster has 0 <= Score <= 100.
C7_ScoreBounds ==
    Clustered =>
        \A k \in 1..Len(clusters) :
            /\ clusters[k].Score.den > 0
            /\ 0 <= clusters[k].Score.num
            /\ clusters[k].Score.num <= 100 * clusters[k].Score.den

\* a cluster spread over more than three services, where the service factor is capped
C7_Witness ==
    /\ Clustered
    /\ \E k \in 1..Len(clusters) : Cardinality(DOMAIN clusters[k].Services) > 3

\* C8: of two clusters with as many signals and as many distinct services, the one
\* with more errors never has the smaller score.
C8_ScoreMonotone ==
    Clustered =>
        \A i, j \in 1..Len(clusters) :
            ( /\ Len(clusters[i].Signals) = Len(clusters[j].Signals)
              /\ Cardinality(DOMAIN clusters[i].Services)
                   = Cardinality(DOMAIN clusters[j].Services)
              /\ clusters[i].Errors > clusters[j].Errors )
            => ~ScoreGreater(clusters[j].Score, clusters[i].Score)

\* two clusters of two signals over two services each, with different error counts
C8_Witness ==
    /\ Clustered
    /\ \E i, j \in 1..Len(clusters) :
         /\ Len(clusters[i].Signals) = 2 /\ Len(clusters[j].Signals) = 2
         /\ Cardinality(DOMAIN clusters[i].Services) = 2
         /\ Cardinality(DOMAIN clusters[j].Services) = 2
         /\ clusters[i].Errors > clusters[j].Errors

\* C9: the returned clusters are the stable descending sort by score of the
\* qualifying buckets: scores never increase along the list, and clusters of equal
\* score keep the order of their buckets in the stream (earlier bucket first).
C9_StableDescending ==
    Clustered =>
        \A i, j \in 1..Len(clusters) :
            i < j =>
                /\ ~ScoreGreater(clusters[j].Score, clusters[i].Score)
                /\ ~ScoreGreater(clusters[i].Score, clusters[j].Score)
                      => clusters[i].Start < clusters[j].Start

\* C10: the returned edges are in non-increasing order of Count.
C10_EdgesSorted ==
    pc = "done" =>
        \A k \in 1..(Len(propagation) - 1) : propagation[k].Count >= propagation[k + 1].Count

\* two edges with different counts were returned
C10_Witness ==
    /\ pc = "done"
    /\ \E i, j \in 1..Len(propagation) : propagation[i].Count > propagation[j].Count

\* ListServices has answered and the focus service is not in its answer
FocusAbsent ==
    /\ calls # <<>>
    /\ calls[1].Ok
    /\ focus # ""
    /\ \A i \in 1..Len(services) : services[i] # focus

\* C11: when a focus service is named and ListServices does not return it, Run
\* returns the "not found" error and no result, and has made no QueryLogs or
\* QueryTraces call and collected no signal.
C11_FocusNotFound ==
    FocusAbsent =>
        /\ pc = "failed"
        /\ err = "service not found"
        /\ Len(calls) = 1
        /\ signals = <<>>
        /\ clusters = NoResult
        /\ propagation = NoResult

\* Run has failed on a non-empty service list that lacks the focus service
C11_Witness ==
    /\ FocusAbsent
    /\ services # <<>>
    /\ pc = "failed"

\* Run has returned a result
Returned == pc = "done"

\* a span that is an error or slower than one second
KeptSpan(t) == t.StatusCode \notin {"", "OK", "0"} \/ t.DurationNano > 1000000000

\* the records of the answered queries that become signals, as <<call, record>>
Derived ==
    {p \in (1..Len(calls)) \X (1..(MaxRecords + 1)) :
        /\ calls[p[1]].Ok
        /\ p[2] <= Len(calls[p[1]].Records)
        /\ \/ calls[p[1]].Op = "QueryLogs"
           \/ calls[p[1]].Op = "QueryTraces" /\ KeptSpan(calls[p[1]].Records[p[2]])}

\* what identifies the signal of a record, and a signal
DerivedKey(p) ==
    LET call == calls[p[1]]
        rec == call.Records[p[2]]
    IN IF call.Op = "QueryLogs"
       THEN <<"logs", call.Service, rec.Timestamp, rec.SeverityText, 0>>
       ELSE <<"traces", rec.ServiceName, rec.Timestamp, rec.StatusCode, rec.DurationNano>>

SignalKey(sig) ==
    <<sig.Source, sig.Service, sig.Timestamp, sig.Severity, sig.DurationNano>>

\* the signals of the result are, as a multiset, the signals of the derived records
ExactlyDerived ==
    /\ Len(signals) = Cardinality(Derived)
    /\ \A p \in Derived :
         Cardinality({i \in 1..Len(signals) : SignalKey(signals[i]) = DerivedKey(p)})
             = Cardinality({q \in Derived : DerivedKey(q) = DerivedKey(p)})

\* QueryLogs and then QueryTraces were called for every target service in turn
EveryServiceQueried ==
    /\ Len(calls) = 1 + 2 * Len(target)
    /\ \A i \in 1..Len(target) :
         /\ calls[2 * i].Op = "QueryLogs" /\ calls[2 * i].Service = target[i]
         /\ calls[2 * i + 1].Op = "QueryTraces" /\ calls[2 * i + 1].Service = target[i]

\* C12: once ListServices has succeeded and the focus filter has passed, a failed
\* QueryLogs or QueryTraces call never makes Run fail: Run returns a result and no
\* error, whose signals are exactly those derived from the calls that succeeded;
\* a failed log query does not suppress the trace query of the same service; and
\* with no signal collected Signals, Clusters and Propagation are all empty.
C12_QueryFailureNotFatal ==
    /\ calls # <<>> /\ calls[1].Ok /\ ~FocusAbsent => pc # "failed" /\ err = ""
    /\ Returned =>
         /\ ExactlyDerived
         /\ EveryServiceQueried
         /\ Derived = {} => signals = <<>> /\ clusters = <<>> /\ propagation = <<>>

\* Run has returned signals although the log query of the first service and both
\* queries of the second failed
C12_Witness ==
    /\ Returned
    /\ Len(target) = 2
    /\ ~calls[2].Ok /\ calls[3].Ok
    /\ ~calls[4].Ok /\ ~calls[5].Ok
    /\ signals # <<>>

\* ListServices has been called and has failed
ListingFailed == calls # <<>> /\ ~calls[1].Ok

ThroughRun == calls # <<>>

Analysed == pc \in {"clustered", "done"}

WithDefault(value, default) == IF value <= 0 THEN default ELSE value

\* C14 as stated: given a non-positive bucketSeconds or minEvents, findClusters
\* and detectPropagation return what they return for 60 and 3, through Run and
\* when called directly.
C14_DefaultsEverywhere ==
    /\ Analysed =>
         clusters = findClusters(signals, WithDefault(opts.BucketSize, 60),
                                 WithDefault(opts.MinEvents, 3))
    /\ Returned =>
         propagation \in detectPropagationResults(signals, WithDefault(opts.BucketSize, 60))

\* C14, amended: Run replaces a non-positive BucketSize by 60 and a non-positive
\* MinEvents by 3 before it calls the analyses, so through Run the output is that
\* of 60 and 3.  Called directly, findClusters and detectPropagation use the
\* value as given: with bucketSeconds <= 0 every signal is a bucket of its own,
\* kept as a cluster when minEvents <= 1, and no edge is returned.
C14_DefaultsInRun ==
    /\ ThroughRun /\ Analysed =>
         clusters = findClusters(signals, WithDefault(opts.BucketSize, 60),
                                 WithDefault(opts.MinEvents, 3))
    /\ ThroughRun /\ Returned =>
         propagation \in detectPropagationResults(signals, WithDefault(opts.BucketSize, 60))
    /\ ~ThroughRun /\ Analysed /\ opts.BucketSize <= 0 =>
         /\ \A k \in 1..Len(clusters) : Len(clusters[k].Signals) = 1
         /\ Len(clusters) = (IF opts.MinEvents <= 1 THEN Len(signals) ELSE 0)
    /\ ~ThroughRun /\ Returned /\ opts.BucketSize <= 0 => propagation = <<>>

\* Run was given BucketSize 0 and MinEvents 0 and has returned a cluster
C14_Witness ==
    /\ ThroughRun
    /\ Returned
    /\ opts.BucketSize = 0 /\ opts.MinEvents = 0
    /\ clusters # <<>>

\* the spans returned by the answered QueryTraces calls
AnsweredSpans ==
    UNION {Range(calls[k].Records) :
              k \in {c \in 1..Len(calls) : calls[c].Op = "QueryTraces" /\ calls[c].Ok}}

\* signal sig was made from span t
SignalOfSpan(sig, t) ==
    /\ sig.Source = "traces"
    /\ sig.Timestamp = t.Timestamp
    /\ sig.Service = t.ServiceName
    /\ sig.Severity = t.StatusCode
    /\ sig.DurationNano = t.DurationNano

\* C15: a span becomes a signal if and only if it is an error span or its duration
\* exceeds 1000 ms; a trace signal has IsError exactly when its span's status code
\* is none of "", "OK" and "0"; every log signal has IsError set.
C15_TraceFilter ==
    /\ \A t \in AnsweredSpans :
         (\E i \in 1..Len(signals) : SignalOfSpan(signals[i], t))
             <=> (t.StatusCode \notin {"", "OK", "0"} \/ t.DurationNano > 1000000000)
    /\ \A i \in 1..Len(signals) :
         IF signals[i].Source = "traces"
         THEN /\ \E t \in AnsweredSpans : SignalOfSpan(signals[i], t)
              /\ signals[i].IsError <=> signals[i].Severity \notin {"", "OK", "0"}
         ELSE signals[i].Source = "logs" /\ signals[i].IsError

\* Run has returned after one span was discarded, a span of exactly 1000 ms with
\* status "0", and another was kept for being slow only
C15_Witness ==
    /\ Returned
    /\ \E t \in AnsweredSpans : t.StatusCode = "0" /\ t.DurationNano = 1000000000
    /\ \E i \in 1..Len(signals) :
         /\ signals[i].Source = "traces"
         /\ ~signals[i].IsError
         /\ signals[i].Severity = "OK"

\* C16: the Summary of every stored signal, from a log or from a span, is bounded
\* by a fixed constant, here the 120 bytes and the "..." that the collector allows
\* a log body.
C16_SummaryBounded ==
    \A i \in 1..Len(signals) : signals[i].SummaryLen <= 120 + 3

\* the indices of the signals of cluster c
SignalsOf(c) == 1..Len(c.Signals)

\* C17: in every returned cluster Services[svc] is the number of the cluster's
\* signals of service svc, so that the key set of Services is the set of services
\* present and its values sum to len(Signals), and Errors is the number of its
\* signals with IsError, between 0 and len(Signals).
C17_CountersConsistent ==
    Clustered =>
        \A k \in 1..Len(clusters) :
            LET c == clusters[k]
            IN /\ DOMAIN c.Services = {c.Signals[i].Service : i \in SignalsOf(c)}
               /\ \A svc \in DOMAIN c.Services :
                    c.Services[svc]
                        = Cardinality({i \in SignalsOf(c) : c.Signals[i].Service = svc})
               /\ Cardinality({p \in (DOMAIN c.Services) \X SignalsOf(c) :
                                  p[2] <= c.Services[p[1]]}) = Len(c.Signals)
               /\ c.Errors = Cardinality({i \in SignalsOf(c) : c.Signals[i].IsError})
               /\ 0 <= c.Errors /\ c.Errors <= Len(c.Signals)

\* a cluster of two services, one of them seen twice, with errors and non-errors
C17_Witness ==
    /\ Clustered
    /\ \E k \in 1..Len(clusters) :
         /\ Cardinality(DOMAIN clusters[k].Services) = 2
         /\ \E svc \in DOMAIN clusters[k].Services : clusters[k].Services[svc] = 2
         /\ 0 < clusters[k].Errors
         /\ clusters[k].Errors < Len(clusters[k].Signals)

\* 3 * n times the severity formula for s services, e errors and n signals:
\* min(s/3, 1)*40 + min(e/n, 1)*40 + min(n/20, 1)*20
SeverityTimes3n(s, e, n) ==
    (IF s < 3 THEN 40 * s ELSE 120) * n
    + (IF e < n THEN 40 * e ELSE 40 * n) * 3
    + (IF n < 20 THEN n ELSE 20) * 3 * n

\* C18: the Score of every cluster is min(distinctServices/3, 1)*40 +
\* min(Errors/len(Signals), 1)*40 + min(len(Signals)/20, 1)*20; a cluster of at
\* least 20 signals, all errors, over at least 3 services scores 100, and a
\* single-service all-error cluster of 20 signals scores 40/3 + 40 + 20.
C18_SeverityFormula ==
    Clustered =>
        \A k \in 1..Len(clusters) :
            LET c == clusters[k]
                s == Cardinality({c.Signals[i].Service : i \in SignalsOf(c)})
                e == Cardinality({i \in SignalsOf(c) : c.Signals[i].IsError})
                n == Len(c.Signals)
            IN /\ c.Score.num * 3 * n = SeverityTimes3n(s, e, n) * c.Score.den
               /\ n >= 20 /\ e = n /\ s >= 3 =>
                    /\ c.Score.num = 100 * c.Score.den
                    /\ c.Score.num > 80 * c.Score.den
               /\ n = 20 /\ e = n /\ s = 1 => 3 * c.Score.num = (40 + 120 + 60) * c.Score.den

\* a cluster of 20 error signals over three services or more
C18_Witness ==
    /\ Clustered
    /\ \E k \in 1..Len(clusters) :
         /\ Len(clusters[k].Signals) >= 20
         /\ clusters[k].Errors = Len(clusters[k].Signals)
         /\ Cardinality(DOMAIN clusters[k].Services) >= 3

IsErrorSignal(sig) == sig.IsError

\* the error signals of the slice, in order
ErrorStream == SelectSeq(signals, IsErrorSignal)

\* the error stream is k times an error of db and, 100 ms later, an error of api
Alternates(k) ==
    /\ Len(ErrorStream) = 2 * k
    /\ \A i \in 1..k :
         /\ ErrorStream[2 * i - 1].Service = "db"
         /\ ErrorStream[2 * i].Service = "api"
         /\ ErrorStream[2 * i].Timestamp = ErrorStream[2 * i - 1].Timestamp + 100

\* the first and the last error are no more than the window apart
InsideWindow ==
    ErrorStream[Len(ErrorStream)].Timestamp - ErrorStream[1].Timestamp <= bucketSec * 1000

\* C19: when the sorted error stream alternates k >= 3 times between an error of
\* db and, 100 ms later, an error of api, all inside the window, detectPropagation
\* returns an edge from db to api whose Count is at least 3 and at least k.
C19_SuccessionDetected ==
    \A k \in 3..MaxSuccessions :
        Returned /\ Alternates(k) /\ InsideWindow =>
            \E n \in 1..Len(propagation) :
                /\ propagation[n].From = "db"
                /\ propagation[n].To = "api"
                /\ propagation[n].Count >= 3
                /\ propagation[n].Count >= k

\* three successions one second apart, analysed with a window of 60 seconds
C19_Witness ==
    /\ Returned
    /\ Alternates(3)
    /\ InsideWindow
    /\ bucketSec = 60
    /\ ErrorStream[3].Timestamp = 1000
    /\ ErrorStream[5].Timestamp = 2000

\* every two signals of the slice sigs are less than bucketSec seconds apart
CloseTogether(sigs) ==
    \A i, j \in 1..Len(sigs) : sigs[j].Timestamp - sigs[i].Timestamp < bucketSec * 1000

\* the buckets of the slice before the minEvents threshold
CandidateBuckets == Buckets(signals, Seconds(bucketSec), 1)

\* C20: two signals of a sorted input whose timestamps differ by bucketSeconds or
\* more never share a bucket, hence never a cluster; two lone signals that far
\* apart make two candidate buckets and, with minEvents > 1, no cluster.
C20_FarApartNeverTogether ==
    Clustered =>
        LET candidates == CandidateBuckets
        IN /\ \A k \in 1..Len(clusters) : CloseTogether(clusters[k].Signals)
           /\ \A k \in 1..Len(candidates) : CloseTogether(candidates[k].signals)
           /\ Len(signals) = 2 /\ ~CloseTogether(signals) =>
                /\ Len(candidates) = 2
                /\ minEvents > 1 => clusters = <<>>

\* two lone signals a full bucket apart, and a threshold of two
C20_Witness ==
    /\ Clustered
    /\ Len(signals) = 2
    /\ signals[2].Timestamp - signals[1].Timestamp >= bucketSec * 1000
    /\ minEvents > 1
    /\ clusters = <<>>

\* C21: every signal of the result of Run has a non-empty Service, the queried
\* service's name for a log signal and the span's own ServiceName for a trace
\* signal, whatever records the backend returns for a named service.
C21_ServiceNonEmpty ==
    \A i \in 1..Len(signals) : signals[i].Service # ""

\* the indices of the signals that open a bucket: the first signal, and every
\* signal bucketSec seconds or more after the latest anchor before it
Anchors ==
    CHOOSE A \in SUBSET (1..Len(signals)) :
        \A i \in 1..Len(signals) :
            i \in A <=>
                \/ i = 1
                \/ \E a \in A :
                     /\ a < i
                     /\ \A b \in A : b < i => b <= a
                     /\ signals[i].Timestamp - signals[a].Timestamp >= bucketSec * 1000

\* the bucket opened at anchor a: the signals from a up to the next anchor
BucketAt(a) ==
    LET later == {b \in Anchors : b > a}
        last == IF later = {} THEN Len(signals)
                ELSE (CHOOSE b \in later : \A c \in later : b <= c) - 1
    IN SubSeq(signals, a, last)

Burst ==
    /\ Len(signals) >= minEvents
    /\ signals[Len(signals)].Timestamp > signals[1].Timestamp
    /\ signals[Len(signals)].Timestamp - signals[1].Timestamp < bucketSec * 1000

\* C23 as stated: a burst of signals each within bucketSeconds of the anchor makes
\* findClusters return a cluster whose End minus Start is greater than
\* bucketSeconds.
C23_SpanExceedsBucket ==
    Clustered /\ signals # <<>> /\ Burst =>
        \E k \in 1..Len(clusters) : clusters[k].End - clusters[k].Start > bucketSec * 1000

\* C23, amended: the span of a cluster never reaches bucketSeconds: every signal
\* of a bucket is less than bucketSeconds after the anchor, which is the
\* cluster's Start, so End minus Start is less than bucketSeconds.
C23_SpanBelowBucket ==
    Clustered =>
        \A k \in 1..Len(clusters) : clusters[k].End - clusters[k].Start < bucketSec * 1000

\* a cluster that spans a second, closed by a signal a full bucket size after
\* its anchor
C23_Witness ==
    /\ Clustered
    /\ \E k \in 1..Len(clusters) :
         /\ clusters[k].End - clusters[k].Start = 1000
         /\ \E i \in 1..Len(signals) :
              signals[i].Timestamp - clusters[k].Start = bucketSec * 1000

\* the index pairs i < j of the error stream with service from at i, service to
\* at j and 0 < delay <= window
SupportingPairs(from, to) ==
    {p \in (1..Len(ErrorStream)) \X (1..Len(ErrorStream)) :
        /\ p[1] < p[2]
        /\ ErrorStream[p[1]].Service = from
        /\ ErrorStream[p[2]].Service = to
        /\ from # to
        /\ ErrorStream[p[2]].Timestamp - ErrorStream[p[1]].Timestamp > 0
        /\ ErrorStream[p[2]].Timestamp - ErrorStream[p[1]].Timestamp <= bucketSec * 1000}

\* C24: the Count accumulated for the ordered service pair (A, B) is the number
\* of index pairs i < j of the error-only sub-list with A at i, B at j, A # B and
\* 0 < delay <= window: the break on delay > window omits none, a delay equal to
\* the window is counted, and equal timestamps are skipped without ending the scan.
C24_PairCount ==
    Returned =>
        LET counted == EdgeMap(signals, bucketSec)
            svcs == ServicesOf(signals)
        IN /\ \A from, to \in svcs :
                IF SupportingPairs(from, to) = {}
                THEN <<from, to>> \notin DOMAIN counted
                ELSE /\ <<from, to>> \in DOMAIN counted
                     /\ counted[<<from, to>>].Count = Cardinality(SupportingPairs(from, to))
           /\ DOMAIN counted \subseteq svcs \X svcs
           /\ \A n \in 1..Len(propagation) :
                propagation[n].Count
                    = Cardinality(SupportingPairs(propagation[n].From, propagation[n].To))

\* an edge was returned that is supported by a pair exactly one window apart and
\* by a pair scanned after a pair of equal timestamps
C24_Witness ==
    /\ Returned
    /\ \E n \in 1..Len(propagation) :
         LET pairs == SupportingPairs(propagation[n].From, propagation[n].To)
         IN /\ \E p \in pairs :
                 ErrorStream[p[2]].Timestamp - ErrorStream[p[1]].Timestamp = bucketSec * 1000
            /\ \E p \in pairs : \E m \in (p[1] + 1)..(p[2] - 1) :
                 ErrorStream[m].Timestamp = ErrorStream[p[1]].Timestamp

\* the sum of the delays, in milliseconds, of a set of index pairs of the error stream
RECURSIVE SumOfDelays(_)
SumOfDelays(pairs) ==
    IF pairs = {} THEN 0
    ELSE LET p == CHOOSE q \in pairs : TRUE
         IN (ErrorStream[p[2]].Timestamp - ErrorStream[p[1]].Timestamp)
                + SumOfDelays(pairs \ {p})

\* C25: the DelayMs of every returned edge is the sum of the delays, in
\* milliseconds, of its supporting pairs divided by its Count, which with
\* millisecond timestamps lies above 0 and at most at windowSeconds * 1000.
C25_AverageDelay ==
    Returned =>
        \A n \in 1..Len(propagation) :
            LET edge == propagation[n]
                pairs == SupportingPairs(edge.From, edge.To)
            IN /\ edge.DelayMs.num * edge.Count = SumOfDelays(pairs) * edge.DelayMs.den
               /\ edge.DelayMs.den > 0
               /\ 0 < edge.DelayMs.num
               /\ edge.DelayMs.num <= bucketSec * 1000 * edge.DelayMs.den

\* an edge supported by two pairs of different delays
C25_Witness ==
    /\ Returned
    /\ \E n \in 1..Len(propagation) :
         /\ propagation[n].Count = 2
         /\ propagation[n].DelayMs.num = 3000
         /\ propagation[n].DelayMs.den = 2

\* C26: detectPropagation returns on a signal stream what it returns on the same
\* stream without its non-error signals: a non-error signal supports no edge and
\* does not stop the scan of error pairs, although it is a member of clusters.
C26_OnlyErrorsPropagate ==
    Returned =>
        /\ detectPropagationResults(signals, bucketSec)
               = detectPropagationResults(ErrorStream, bucketSec)
        /\ propagation \in detectPropagationResults(ErrorStream, bucketSec)
        /\ \A n \in 1..Len(propagation) :
             /\ \E i \in 1..Len(ErrorStream) : ErrorStream[i].Service = propagation[n].From
             /\ \E i \in 1..Len(ErrorStream) : ErrorStream[i].Service = propagation[n].To
        /\ minEvents = 1 =>
             \A i \in 1..Len(signals) :
                 \E k \in 1..Len(clusters) : signals[i] \in Range(clusters[k].Signals)

\* a non-error signal of a third service lies between the two errors of a
\* supporting pair of a returned edge and is a member of a cluster
C26_Witness ==
    /\ Returned
    /\ \E i \in 2..(Len(signals) - 1) :
         /\ ~signals[i].IsError
         /\ signals[i - 1].IsError /\ signals[i + 1].IsError
         /\ signals[i - 1].Timestamp < signals[i].Timestamp
         /\ signals[i].Timestamp < signals[i + 1].Timestamp
         /\ signals[i].Service \notin {signals[i - 1].Service, signals[i + 1].Service}
         /\ \E n \in 1..Len(propagation) :
              /\ propagation[n].From = signals[i - 1].Service
              /\ propagation[n].To = signals[i + 1].Service
         /\ \E k \in 1..Len(clusters) : signals[i] \in Range(clusters[k].Signals)

\* an analysis is about to run or running between the two calls
Analysing == pc \in {"sorted", "clustered", "propagated"}

CanQuery(svc) ==
    ENABLED (Next /\ Len(calls') = Len(calls) + 1 /\ calls'[Len(calls')].Service = svc)

\* C28: while a QueryLogs or QueryTraces call of one service has not returned,
\* be it slow or stuck for ever, the queries of the other target services can
\* still be issued and completed.
C28_SlowQueryDoesNotBlock ==
    pc \in {"logs", "traces"} =>
        \A i \in 1..Len(target) :
            /\ target[i] # target[idx]
            /\ \A k \in 1..Len(calls) : calls[k].Service # target[i]
            => CanQuery(target[i])

\* the caller has cancelled ctx
Cancelled == cancelledAt >= 0

\* C29: when ctx is cancelled during the collection, after ListServices has
\* succeeded, the query in flight and the remaining ones are aborted, and Run
\* still returns a result and no error, with the signals of the queries that
\* returned before the cancellation, sorted, clustered and analysed as usual.
C29_CancellationPartial ==
    Cancelled =>
        /\ pc # "failed" /\ err = ""
        /\ \A k \in (cancelledAt + 1)..Len(calls) : ~calls[k].Ok
        /\ Returned =>
             /\ ExactlyDerived
             /\ \A p \in Derived : p[1] <= cancelledAt
             /\ \A i, j \in 1..Len(signals) :
                  i < j => signals[i].Timestamp <= signals[j].Timestamp
             /\ clusters = findClusters(signals, bucketSec, minEvents)
             /\ propagation \in detectPropagationResults(signals, bucketSec)

\* ctx was cancelled after the log query of the first of two services had
\* returned a record, and Run has returned that signal
C29_Witness ==
    /\ Returned
    /\ cancelledAt = 2
    /\ Len(target) = 2
    /\ Len(calls) = 5
    /\ calls[2].Ok
    /\ Len(signals) = 1

\* C30: every returned cluster's Signals is a contiguous run of the sorted input,
\* in input order; no input signal is a member of two clusters; and the time
\* ranges [Start, End] of two distinct clusters do not overlap.
C30_DisjointRuns ==
    Clustered =>
        /\ \A k \in 1..Len(clusters) :
             \E a \in 1..Len(signals) :
                 /\ a + Len(clusters[k].Signals) - 1 <= Len(signals)
                 /\ clusters[k].Signals
                        = SubSeq(signals, a, a + Len(clusters[k].Signals) - 1)
        /\ \A k, l \in 1..Len(clusters) :
             k # l =>
                 /\ Range(clusters[k].Signals) \cap Range(clusters[l].Signals) = {}
                 /\ \/ clusters[k].End < clusters[l].Start
                    \/ clusters[l].End < clusters[k].Start

\* two clusters were cut from the slice, the later one of two signals or more
\* and returned first
C30_Witness ==
    /\ Clustered
    /\ Len(clusters) = 2
    /\ Len(clusters[1].Signals) >= 2
    /\ clusters[1].Start > clusters[2].End

====
